---- MODULE Spec2Model ----
(***************************************************************************)
(* Model of SeedVr2Server.py: the tile/offload planner                     *)
(* (calculate_tile_settings) and the CLI invoker (upscale_with_cli) with   *)
(* the /upscale endpoint around it.                                        *)
(*                                                                         *)
(* Two specifications:                                                     *)
(*   PlannerSpec - calculate_tile_settings applied to inputs drawn from    *)
(*                 PlannerInputs;                                          *)
(*   Spec        - NumInv request handlers running upscale_endpoint /      *)
(*                 upscale_with_cli step by step over one temp root.       *)
(***************************************************************************)
EXTENDS Integers, Sequences, FiniteSets, TLC

VARIABLES
    planIn,     \* PlannerSpec: arguments (width, height, target_resolution)
    planOut,    \* PlannerSpec: locals of calculate_tile_settings at return, or NoPlan
    ready,      \* state.ready
    runs,       \* number of requests received so far
    fs,         \* temp root: name -> scratch workspace (or Absent)
    pc,         \* per handler: position in upscale_endpoint / upscale_with_cli
    id,         \* per handler: number of the request being handled
    request,    \* per handler: the decoded image's size and the UpscaleRequest
    tmpdir,     \* per handler: name returned by tempfile.mkdtemp()
    cmd,        \* per handler: argument list
    proc,       \* per handler: the external process: none, running, exited, killed
    result,     \* per handler: what subprocess.run returned
    output_file,\* per handler: name of the artifact chosen
    ret,        \* per handler: (output_bytes, width, height) to return
    exc,        \* per handler: exception being raised
    response,   \* per handler: the HTTP response to the last request
    log         \* per handler: statements executed by this invocation, in order

planVars == <<planIn, planOut>>
invVars == <<ready, runs, fs, pc, id, request, tmpdir, cmd, proc, result,
             output_file, ret, exc, response, log>>
vars == <<planIn, planOut, ready, runs, fs, pc, id, request, tmpdir, cmd, proc,
          result, output_file, ret, exc, response, log>>

(***************************************************************************)
(* Bounds of the model.                                                    *)
(***************************************************************************)
MaxSide == 8        \* planner grid: widths and heights 1..MaxSide
NumInv == 2         \* request handlers that may run at the same time
NumNames == 2       \* names tempfile.mkdtemp() can draw from
MaxRuns == 2        \* requests received in one behaviour
MaxFiles == 2       \* files the external tool leaves in the output directory

NoPlan == [none |-> TRUE]

(***************************************************************************)
(* IEEE-754 double arithmetic of  int(side * (target_resolution / other))  *)
(* computed with integers only.                                            *)
(***************************************************************************)
RECURSIVE Pow2(_)
Pow2(n) == IF n <= 0 THEN 1 ELSE 2 * Pow2(n - 1)

\* 2^k mod m
RECURSIVE PowMod(_, _)
PowMod(k, m) == IF k = 0 THEN 1 % m ELSE (2 * PowMod(k - 1, m)) % m

\* floor(log2(n / d)) for positive integers n, d
RECURSIVE FloorLog2Up(_, _)
FloorLog2Up(n, d) == IF n >= 2 * d THEN 1 + FloorLog2Up(n, 2 * d) ELSE 0

RECURSIVE FloorLog2Down(_, _)
FloorLog2Down(n, d) == IF n < d THEN FloorLog2Down(2 * n, d) - 1 ELSE 0

FloorLog2(n, d) == IF n >= d THEN FloorLog2Up(n, d) ELSE FloorLog2Down(n, d)

(***************************************************************************)
(* int(side * (target_resolution / other)).                                *)
(*                                                                         *)
(* q = target_resolution / other is rounded to a 53-bit mantissa           *)
(* (round-half-even), side * q is rounded again, int() truncates.          *)
(* With N = side * target_resolution / other (exact):                      *)
(*  - if other does not divide side * target_resolution, the fractional    *)
(*    part of N is at least 1/other, far above the rounding error, and     *)
(*    the result is floor(N);                                              *)
(*  - if it divides, the product is N exactly when q is exact (r = 0) or   *)
(*    was rounded up, and falls below N (int() gives N - 1) when q was     *)
(*    rounded down by r/other of its last place and side * r/other of      *)
(*    that place exceeds half the gap between N and the double below it.   *)
(* Exact for side * target_resolution < 2^51; the inputs here stay below   *)
(* 2^31.                                                                   *)
(***************************************************************************)
ScaledSide(side, target_resolution, other) ==
    LET prod == side * target_resolution
        N    == prod \div other
    IN  IF prod % other # 0 THEN N
        ELSE
        LET a == FloorLog2(target_resolution, other)
            k == 52 - a
            r == (target_resolution * PowMod(k, other)) % other
        IN  IF r = 0 THEN N
            ELSE
            LET r2   == (target_resolution * PowMod(k, 2 * other)) % (2 * other)
                odd  == (r2 - r) \div other
                down == 2 * r < other \/ (2 * r = other /\ odd = 0)
                b    == FloorLog2(N, 1)
                c    == IF N = Pow2(b) THEN 4 ELSE 2
            IN  IF down /\ c * side * r > other * Pow2(b - a) THEN N - 1 ELSE N

Max(x, y) == IF x >= y THEN x ELSE y

\* Python round(): nearest integer, ties to even, of n / d
RoundDiv(n, d) ==
    LET q == n \div d
        rem == n % d
    IN  IF 2 * rem < d THEN q
        ELSE IF 2 * rem > d THEN q + 1
        ELSE IF q % 2 = 0 THEN q ELSE q + 1

\* mutant: the scaled side rounded to nearest instead of truncated
OutputDimensionsRounded(width, height, target_resolution) ==
    IF height < width
    THEN <<RoundDiv(width * target_resolution, height), target_resolution>>
    ELSE <<target_resolution, RoundDiv(height * target_resolution, width)>>

\* mutant: the longer side, not the shorter, mapped to target_resolution
OutputDimensionsLongSide(width, height, target_resolution) ==
    IF height < width
    THEN <<target_resolution, ScaledSide(height, target_resolution, width)>>
    ELSE <<ScaledSide(width, target_resolution, height), target_resolution>>

\* lines 154-160: <<out_width, out_height>>
OutputDimensions(width, height, target_resolution) ==
    IF height < width
    THEN <<ScaledSide(width, target_resolution, height), target_resolution>>
    ELSE <<target_resolution, ScaledSide(height, target_resolution, width)>>

\* mutant: exclusive upper bounds
TileSizeExclusive(max_dim) ==
    IF max_dim < 1024 THEN 512
    ELSE IF max_dim < 2048 THEN 512
    ELSE IF max_dim < 4096 THEN 384
    ELSE 256

\* lines 167-174
TileSize(max_dim) ==
    IF max_dim <= 1024 THEN 512
    ELSE IF max_dim <= 2048 THEN 512
    ELSE IF max_dim <= 4096 THEN 384
    ELSE 256

\* line 177
TileOverlap(tile_size) == Max(64, tile_size \div 4)

\* mutant: inclusive lower bounds
BlocksToSwapInclusive(total_pixels) ==
    IF total_pixels >= 40000000 THEN 32
    ELSE IF total_pixels >= 25000000 THEN 24
    ELSE IF total_pixels >= 16000000 THEN 16
    ELSE IF total_pixels >= 9000000 THEN 8
    ELSE 0

\* lines 182-191
BlocksToSwap(total_pixels) ==
    IF total_pixels > 40000000 THEN 32
    ELSE IF total_pixels > 25000000 THEN 24
    ELSE IF total_pixels > 16000000 THEN 16
    ELSE IF total_pixels > 9000000 THEN 8
    ELSE 0

\* The locals of calculate_tile_settings when it returns.
PlanLocals(width, height, target_resolution) ==
    LET dims         == OutputDimensions(width, height, target_resolution)
        out_width    == dims[1]
        out_height   == dims[2]
        max_dim      == Max(out_width, out_height)
        total_pixels == out_width * out_height
        tile_size    == TileSize(max_dim)
    IN  [out_width |-> out_width, out_height |-> out_height,
         max_dim |-> max_dim, total_pixels |-> total_pixels,
         tile_size |-> tile_size,
         tile_overlap |-> TileOverlap(tile_size),
         blocks_to_swap |-> BlocksToSwap(total_pixels)]

\* The returned tuple (tile_size, tile_overlap, blocks_to_swap).
calculate_tile_settings(width, height, target_resolution) ==
    LET l == PlanLocals(width, height, target_resolution)
    IN  <<l.tile_size, l.tile_overlap, l.blocks_to_swap>>

(***************************************************************************)
(* The invoker: data.                                                      *)
(***************************************************************************)
Inv == 1..NumInv
Names == 1..NumNames

TIMEOUT_SECONDS == 7200

\* str(int)
Digit == <<"0", "1", "2", "3", "4", "5", "6", "7", "8", "9">>

RECURSIVE Str(_)
Str(n) == IF n < 10 THEN Digit[n + 1] ELSE Str(n \div 10) \o Digit[(n % 10) + 1]

\* str(float) of a noise scale, held in tenths: 5 is 0.5
FloatStr(tenths) == Str(tenths \div 10) \o "." \o Str(tenths % 10)

\* The decoded image's size and the request's fields.  Noise scales in tenths.
Cases ==
    { [width |-> 2, height |-> 1, resolution |-> 64, seed |-> 42,
       color_correction |-> "lab", max_resolution |-> 0,
       input_noise_scale |-> 0, latent_noise_scale |-> 0],
      [width |-> 1, height |-> 1, resolution |-> 3001, seed |-> 7,
       color_correction |-> "wavelet", max_resolution |-> 2048,
       input_noise_scale |-> 5, latent_noise_scale |-> 0],
      [width |-> 5000, height |-> 8001, resolution |-> 5000, seed |-> 0,
       color_correction |-> "none", max_resolution |-> 0,
       input_noise_scale |-> 0, latent_noise_scale |-> 15] }

NoRequest ==
    [width |-> 0, height |-> 0, resolution |-> 0, seed |-> 0,
     color_correction |-> "", max_resolution |-> 0,
     input_noise_scale |-> 0, latent_noise_scale |-> 0]

\* File contents: <<bytes, width, height>>; a width of 0 does not decode.
NoBytes == <<"", 0, 0>>

\* image.save(input_path, "PNG")
PngOf(r) == <<"IN", r.width, r.height>>

\* File names: <<stem, extension>>.
ExpectedFile == <<"input", "png">>
FileNames == {ExpectedFile, <<"a", "png">>, <<"b", "png">>, <<"c", "jpg">>}

\* What the external tool writes under each name (distinct bytes per name,
\* so the bytes tell which file was read; b.png is not a decodable image).
ToolBytes(f) ==
    CASE f = <<"input", "png">> -> <<"P1", 4, 2>>
      [] f = <<"a", "png">>     -> <<"P2", 2, 2>>
      [] f = <<"b", "png">>     -> <<"XX", 0, 0>>
      [] OTHER                  -> <<"J1", 4, 2>>

FileSets == {S \in SUBSET FileNames : Cardinality(S) <= MaxFiles}

\* What a run that fails or is killed leaves: nothing, or a partial expected file.
PartialFileSets == {S \in FileSets : S \subseteq {ExpectedFile}}

\* Directories
NoDir == [exists |-> FALSE, files |-> <<>>]
EmptyDir == [exists |-> TRUE, files |-> <<>>]

\* A scratch workspace: tmpdir/input.png, tmpdir/output/.  owner and touched
\* record which request created it and which requests accessed it;
\* rmtree_failed records a failed shutil.rmtree.
Absent ==
    [exists |-> FALSE, input |-> NoBytes, output |-> NoDir,
     owner |-> 0, touched |-> {}, rmtree_failed |-> FALSE]

NewWorkspace(k) ==
    [exists |-> TRUE, input |-> NoBytes, output |-> NoDir,
     owner |-> k, touched |-> {k}, rmtree_failed |-> FALSE]

Touch(ws, k) == [ws EXCEPT !.touched = @ \cup {k}]

\* Paths as strings
TmpPath(n) == "/tmp/tmp" \o Str(n)
InputPath(n) == TmpPath(n) \o "/input.png"
OutputDirPath(n) == TmpPath(n) \o "/output"

\* Exceptions and return values
NoExc == [type |-> "", msg |-> <<"", "">>]
NoRet == [output_bytes |-> NoBytes, width |-> 0, height |-> 0]
NoResponse == [status |-> 0, success |-> FALSE, detail |-> "",
               image_base64 |-> <<"", NoBytes>>, width |-> 0, height |-> 0]

\* str(e)
ExcStr(e) == e.msg[1] \o e.msg[2]

\* base64.b64encode(output_bytes).decode()
B64(bytes) == <<"base64", bytes>>

(***************************************************************************)
(* The argument list (lines 236-273).                                      *)
(***************************************************************************)
BaseArgs(r, n) ==
    << "python", "inference_cli.py", InputPath(n),
       "--output", OutputDirPath(n),
       "--resolution", Str(r.resolution),
       "--seed", Str(r.seed),
       "--color_correction", r.color_correction,
       "--batch_size", "1" >>

OptionalArgs(r) ==
    (IF r.max_resolution > 0
       THEN <<"--max_resolution", Str(r.max_resolution)>> ELSE <<>>)
    \o (IF r.input_noise_scale > 0
       THEN <<"--input_noise_scale", FloatStr(r.input_noise_scale)>> ELSE <<>>)
    \o (IF r.latent_noise_scale > 0
       THEN <<"--latent_noise_scale", FloatStr(r.latent_noise_scale)>> ELSE <<>>)

TilingArgs(tile_size, tile_overlap) ==
    << "--vae_encode_tiled", "--vae_decode_tiled",
       "--vae_encode_tile_size", Str(tile_size),
       "--vae_decode_tile_size", Str(tile_size),
       "--vae_encode_tile_overlap", Str(tile_overlap),
       "--vae_decode_tile_overlap", Str(tile_overlap) >>

\* mutant: block swapping without declaring the offload device
OffloadArgsNoDevice(blocks_to_swap) ==
    IF blocks_to_swap > 0
    THEN <<"--blocks_to_swap", Str(blocks_to_swap), "--swap_io_components">>
    ELSE <<>>

OffloadArgs(blocks_to_swap) ==
    IF blocks_to_swap > 0
    THEN <<"--blocks_to_swap", Str(blocks_to_swap),
           "--dit_offload_device", "cpu", "--swap_io_components">>
    ELSE <<>>

BuildArgs(r, n) ==
    LET plan == calculate_tile_settings(r.width, r.height, r.resolution)
    IN  BaseArgs(r, n) \o OptionalArgs(r)
        \o TilingArgs(plan[1], plan[2]) \o OffloadArgs(plan[3])

\* The value following a flag in an argument list ("" when the flag is absent)
HasArg(args, flag) == \E k \in 1..Len(args) : args[k] = flag

ArgValue(args, flag) ==
    IF \E k \in 1..(Len(args) - 1) : args[k] = flag
    THEN args[(CHOOSE k \in 1..(Len(args) - 1) : args[k] = flag) + 1]
    ELSE ""

\* The workspaces whose output directory an argument list names
OutputTargets(args) == {n \in Names : OutputDirPath(n) = ArgValue(args, "--output")}

(***************************************************************************)
(* The invoker: steps of upscale_endpoint and upscale_with_cli.            *)
(***************************************************************************)
Stdouts == {"", "log"}
Stderrs == {"", "err"}

\* What subprocess.run returns: a failing run with any captured output, a
\* successful one with or without text on stdout.
ToolResults ==
    [returncode : {1}, stdout : Stdouts, stderr : Stderrs]
    \cup [returncode : {0}, stdout : Stdouts, stderr : {""}]

NoResult == [returncode |-> -1, stdout |-> "", stderr |-> ""]

Ws(i) == fs[tmpdir[i]]

\* fs with request k's access to workspace n recorded
Touched(n, k) == [fs EXCEPT ![n] = IF @.exists THEN Touch(@, k) ELSE @]

\* lifespan: check_models() (lines 214-219, 341-344)
CheckModels ==
    /\ ~ready
    /\ ready' = TRUE
    /\ UNCHANGED <<planVars, runs, fs, pc, id, request, tmpdir, cmd, proc,
                   result, output_file, ret, exc, response, log>>

\* The server hands a request to an idle handler; handlers are interchangeable,
\* so the lowest idle one takes it.
Dispatched(i) ==
    /\ pc[i] = "idle"
    /\ \A j \in Inv : j < i => pc[j] # "idle"

\* mutant: a name is handed out whether or not it is in use
MkdtempAnyName == Names

\* tempfile.mkdtemp(): a name no existing directory has
Mkdtemp == {n \in Names : ~fs[n].exists}

\* upscale_endpoint receives a request whose image decodes, and calls
\* upscale_with_cli, which creates its temp directory (lines 366-391, 226).
BeginUpscale(i) ==
    /\ Dispatched(i)
    /\ ready
    /\ runs < MaxRuns
    /\ \E c \in Cases : \E n \in Mkdtemp :
        /\ runs' = runs + 1
        /\ id' = [id EXCEPT ![i] = runs + 1]
        /\ request' = [request EXCEPT ![i] = c]
        /\ tmpdir' = [tmpdir EXCEPT ![i] = n]
        /\ fs' = [fs EXCEPT ![n] = IF @.exists THEN Touch(@, runs + 1)
                                               ELSE NewWorkspace(runs + 1)]
    /\ log' = [log EXCEPT ![i] = <<"mkdtemp">>]
    /\ response' = [response EXCEPT ![i] = NoResponse]
    /\ pc' = [pc EXCEPT ![i] = "mkdir"]
    /\ UNCHANGED <<planVars, ready, cmd, proc, result, output_file, ret, exc>>

\* upscale_endpoint receives a request whose image does not decode
\* (lines 385-386, 403-406): upscale_with_cli is not called.
BadImage(i) ==
    /\ Dispatched(i)
    /\ ready
    /\ runs < MaxRuns
    /\ runs' = runs + 1
    /\ response' = [response EXCEPT ![i] =
           [NoResponse EXCEPT !.status = 500, !.detail = "cannot identify image file"]]
    /\ UNCHANGED <<planVars, ready, fs, pc, id, request, tmpdir, cmd, proc,
                   result, output_file, ret, exc, log>>

\* output_dir.mkdir() (line 230); ok = FALSE: the file system refuses
MkdirOutput(i) ==
    /\ pc[i] = "mkdir"
    /\ \E ok \in BOOLEAN :
        IF ok /\ Ws(i).exists /\ ~Ws(i).output.exists
        THEN /\ fs' = [fs EXCEPT ![tmpdir[i]] =
                          Touch([@ EXCEPT !.output = EmptyDir], id[i])]
             /\ log' = [log EXCEPT ![i] = Append(@, "mkdir")]
             /\ pc' = [pc EXCEPT ![i] = "save"]
             /\ exc' = exc
        ELSE /\ fs' = Touched(tmpdir[i], id[i])
             /\ log' = [log EXCEPT ![i] = Append(@, "mkdir_failed")]
             /\ pc' = [pc EXCEPT ![i] = "finally"]
             /\ exc' = [exc EXCEPT ![i] = [type |-> "OSError", msg |-> <<"mkdir: ", "output">>]]
    /\ UNCHANGED <<planVars, ready, runs, id, request, tmpdir, cmd, proc,
                   result, output_file, ret, response>>

\* image.save(input_path, "PNG") (line 233); ok = FALSE: the write fails
SaveInput(i) ==
    /\ pc[i] = "save"
    /\ \E ok \in BOOLEAN :
        IF ok /\ Ws(i).exists
        THEN /\ fs' = [fs EXCEPT ![tmpdir[i]] =
                          Touch([@ EXCEPT !.input = PngOf(request[i])], id[i])]
             /\ log' = [log EXCEPT ![i] = Append(@, "save")]
             /\ pc' = [pc EXCEPT ![i] = "build"]
             /\ exc' = exc
        ELSE /\ fs' = Touched(tmpdir[i], id[i])
             /\ log' = [log EXCEPT ![i] = Append(@, "save_failed")]
             /\ pc' = [pc EXCEPT ![i] = "finally"]
             /\ exc' = [exc EXCEPT ![i] = [type |-> "OSError", msg |-> <<"save: ", "input.png">>]]
    /\ UNCHANGED <<planVars, ready, runs, id, request, tmpdir, cmd, proc,
                   result, output_file, ret, response>>

\* lines 236-273
BuildCommand(i) ==
    /\ pc[i] = "build"
    /\ cmd' = [cmd EXCEPT ![i] = BuildArgs(request[i], tmpdir[i])]
    /\ pc' = [pc EXCEPT ![i] = "run"]
    /\ UNCHANGED <<planVars, ready, runs, fs, id, request, tmpdir, proc,
                   result, output_file, ret, exc, response, log>>

\* subprocess.run starts the external process (line 283)
RunTool(i) ==
    /\ pc[i] = "run"
    /\ proc' = [proc EXCEPT ![i] = "running"]
    /\ log' = [log EXCEPT ![i] = Append(@, "start")]
    /\ pc' = [pc EXCEPT ![i] = "running"]
    /\ UNCHANGED <<planVars, ready, runs, fs, id, request, tmpdir, cmd,
                   result, output_file, ret, exc, response>>

\* The files of a directory after the tool has written the files S into it
Merge(files, S) ==
    [f \in (DOMAIN files) \cup S |-> IF f \in S THEN ToolBytes(f) ELSE files[f]]

\* The external tool's effect on the file system: it writes the files S into the
\* directory its --output argument names, or (keep = FALSE) removes that directory.
ToolEffect(args, S, keep, k) ==
    [n \in Names |->
        IF n \in OutputTargets(args) /\ fs[n].exists /\ fs[n].output.exists
        THEN Touch([fs[n] EXCEPT !.output =
                        IF keep THEN [exists |-> TRUE, files |-> Merge(@.files, S)]
                                ELSE NoDir], k)
        ELSE fs[n]]

\* mutant: the return code is not looked at
FailedNever(returncode) == FALSE

\* line 294
Failed(returncode) == returncode # 0

\* The process exits and subprocess.run returns; the return code is checked
\* (lines 283-297).
ToolExits(i) ==
    /\ pc[i] = "running"
    /\ \E r \in ToolResults : \E S \in FileSets : \E keep \in BOOLEAN :
        /\ keep \/ S = {}
        /\ r.returncode # 0 => keep /\ S \in PartialFileSets
        /\ fs' = ToolEffect(cmd[i], S, keep, id[i])
        /\ result' = [result EXCEPT ![i] = r]
        /\ log' = [log EXCEPT ![i] =
                      Append(@, IF r.returncode = 0 THEN "exit_zero" ELSE "exit_nonzero")]
        /\ IF Failed(r.returncode)
           THEN /\ exc' = [exc EXCEPT ![i] =
                      [type |-> "RuntimeError",
                       msg |-> <<"CLI failed: ",
                                 IF r.stderr # "" THEN r.stderr ELSE r.stdout>>]]
                /\ pc' = [pc EXCEPT ![i] = "finally"]
           ELSE /\ pc' = [pc EXCEPT ![i] = "find"]
                /\ exc' = exc
    /\ proc' = [proc EXCEPT ![i] = "exited"]
    /\ UNCHANGED <<planVars, ready, runs, id, request, tmpdir, cmd,
                   output_file, ret, response>>

\* mutant: a timed-out run is started again
AfterTimeoutRetry == "run"

\* subprocess.TimeoutExpired propagates to the finally clause
AfterTimeout == "finally"

\* The process outlives the timeout: subprocess.run kills it, waits for it and
\* raises subprocess.TimeoutExpired (line 288).  It may have written files.
ToolTimesOut(i) ==
    /\ pc[i] = "running"
    /\ \E S \in PartialFileSets :
        fs' = ToolEffect(cmd[i], S, TRUE, id[i])
    /\ proc' = [proc EXCEPT ![i] = "killed"]
    /\ log' = [log EXCEPT ![i] = Append(@, "timeout")]
    /\ exc' = [exc EXCEPT ![i] =
           [type |-> "TimeoutExpired",
            msg |-> <<"Command timed out after ", Str(TIMEOUT_SECONDS) \o " seconds">>]]
    /\ pc' = [pc EXCEPT ![i] = AfterTimeout]
    /\ UNCHANGED <<planVars, ready, runs, id, request, tmpdir, cmd,
                   result, output_file, ret, response>>

\* output_dir.glob("*.png")
GlobPng(dir) == {f \in DOMAIN dir.files : f[2] = "png"}

\* mutant: the fallback scan takes any file
ChooseArtifactAnyFile(dir) ==
    IF ~dir.exists THEN {}
    ELSE IF ExpectedFile \in DOMAIN dir.files THEN {ExpectedFile}
    ELSE DOMAIN dir.files

\* The files output_file may end up naming (lines 303-311): the expected file
\* when it exists, else any file of the glob (output_files[0]; the order of a
\* directory listing is arbitrary), none when there is no match.
ChooseArtifact(dir) ==
    IF ~dir.exists THEN {}
    ELSE IF ExpectedFile \in DOMAIN dir.files THEN {ExpectedFile}
    ELSE GlobPng(dir)

\* lines 303-318
FindOutput(i) ==
    /\ pc[i] = "find"
    /\ LET found == IF Ws(i).exists THEN ChooseArtifact(Ws(i).output) ELSE {}
       IN  \/ /\ found = {}
              /\ exc' = [exc EXCEPT ![i] =
                     [type |-> "RuntimeError",
                      msg |-> <<"No output file found. CLI output: ", result[i].stdout>>]]
              /\ log' = [log EXCEPT ![i] = @ \o <<"find", "not_found">>]
              /\ pc' = [pc EXCEPT ![i] = "finally"]
              /\ output_file' = output_file
           \/ \E f \in found :
              /\ output_file' = [output_file EXCEPT ![i] = f]
              /\ log' = [log EXCEPT ![i] = Append(@, "find")]
              /\ pc' = [pc EXCEPT ![i] = "read"]
              /\ exc' = exc
    /\ fs' = Touched(tmpdir[i], id[i])
    /\ UNCHANGED <<planVars, ready, runs, id, request, tmpdir, cmd, proc,
                   result, ret, response>>

\* lines 324-330: the raw bytes, and the size Image.open reads from them
ReturnValue(bytes) ==
    [output_bytes |-> bytes, width |-> bytes[2], height |-> bytes[3]]

\* output_file.read_bytes(), Image.open(output_file).size (lines 324-330)
ReadOutput(i) ==
    /\ pc[i] = "read"
    /\ LET ws == Ws(i)
           present == /\ ws.exists
                      /\ ws.output.exists
                      /\ output_file[i] \in DOMAIN ws.output.files
       IN  IF present /\ ws.output.files[output_file[i]][2] > 0
           THEN /\ ret' = [ret EXCEPT ![i] = ReturnValue(ws.output.files[output_file[i]])]
                /\ log' = [log EXCEPT ![i] = Append(@, "read")]
                /\ exc' = exc
           ELSE /\ exc' = [exc EXCEPT ![i] =
                      [type |-> IF present THEN "UnidentifiedImageError"
                                           ELSE "FileNotFoundError",
                       msg |-> <<"cannot read ", output_file[i][1]>>]]
                /\ log' = [log EXCEPT ![i] = Append(@, "read_failed")]
                /\ ret' = ret
    /\ fs' = Touched(tmpdir[i], id[i])
    /\ pc' = [pc EXCEPT ![i] = "finally"]
    /\ UNCHANGED <<planVars, ready, runs, id, request, tmpdir, cmd, proc,
                   result, output_file, response>>

\* mutant: the temp directory is removed only on the success path
CleanupReachedOnSuccessOnly(i) == exc[i] = NoExc

\* the rmtree is in a finally clause: it runs on every path (line 332)
CleanupReached(i) == TRUE

\* finally: shutil.rmtree(tmpdir, ignore_errors=True) (lines 332-338), then the
\* return or the raise.  ok = FALSE: the removal fails, the error is ignored
\* and the directory stays.
Finally(i) ==
    /\ pc[i] = "finally"
    /\ IF CleanupReached(i)
       THEN /\ \E ok \in BOOLEAN :
                fs' = [fs EXCEPT ![tmpdir[i]] =
                          IF ~@.exists THEN @
                          ELSE IF ok THEN Absent
                          ELSE [Touch(@, id[i]) EXCEPT !.rmtree_failed = TRUE]]
            /\ log' = [log EXCEPT ![i] = Append(@, "rmtree")]
       ELSE UNCHANGED <<fs, log>>
    /\ pc' = [pc EXCEPT ![i] = "done"]
    /\ UNCHANGED <<planVars, ready, runs, id, request, tmpdir, cmd, proc,
                   result, output_file, ret, exc, response>>

\* upscale_endpoint: the response (lines 391-406)
ResponseOf(r, e) ==
    IF e = NoExc
    THEN [status |-> 200, success |-> TRUE, detail |-> "Image upscaled successfully",
          image_base64 |-> B64(r.output_bytes), width |-> r.width, height |-> r.height]
    ELSE [NoResponse EXCEPT !.status = 500, !.detail = ExcStr(e)]

Respond(i) ==
    /\ pc[i] = "done"
    /\ response' = [response EXCEPT ![i] = ResponseOf(ret[i], exc[i])]
    /\ pc' = [pc EXCEPT ![i] = "idle"]
    /\ id' = [id EXCEPT ![i] = 0]
    /\ request' = [request EXCEPT ![i] = NoRequest]
    /\ tmpdir' = [tmpdir EXCEPT ![i] = 0]
    /\ cmd' = [cmd EXCEPT ![i] = <<>>]
    /\ proc' = [proc EXCEPT ![i] = "none"]
    /\ result' = [result EXCEPT ![i] = NoResult]
    /\ output_file' = [output_file EXCEPT ![i] = <<"", "">>]
    /\ ret' = [ret EXCEPT ![i] = NoRet]
    /\ exc' = [exc EXCEPT ![i] = NoExc]
    /\ log' = [log EXCEPT ![i] = <<>>]
    /\ UNCHANGED <<planVars, ready, runs, fs>>

InvokerInit ==
    /\ ready = FALSE
    /\ runs = 0
    /\ fs = [n \in Names |-> Absent]
    /\ pc = [i \in Inv |-> "idle"]
    /\ id = [i \in Inv |-> 0]
    /\ request = [i \in Inv |-> NoRequest]
    /\ tmpdir = [i \in Inv |-> 0]
    /\ cmd = [i \in Inv |-> <<>>]
    /\ proc = [i \in Inv |-> "none"]
    /\ result = [i \in Inv |-> NoResult]
    /\ output_file = [i \in Inv |-> <<"", "">>]
    /\ ret = [i \in Inv |-> NoRet]
    /\ exc = [i \in Inv |-> NoExc]
    /\ response = [i \in Inv |-> NoResponse]
    /\ log = [i \in Inv |-> <<>>]

Init ==
    /\ planIn = <<1, 1, 64>>
    /\ planOut = NoPlan
    /\ InvokerInit

Next ==
    \/ CheckModels
    \/ \E i \in Inv : BeginUpscale(i)
    \/ \E i \in Inv : BadImage(i)
    \/ \E i \in Inv : MkdirOutput(i)
    \/ \E i \in Inv : SaveInput(i)
    \/ \E i \in Inv : BuildCommand(i)
    \/ \E i \in Inv : RunTool(i)
    \/ \E i \in Inv : ToolExits(i)
    \/ \E i \in Inv : ToolTimesOut(i)
    \/ \E i \in Inv : FindOutput(i)
    \/ \E i \in Inv : ReadOutput(i)
    \/ \E i \in Inv : Finally(i)
    \/ \E i \in Inv : Respond(i)

Spec == Init /\ [][Next]_vars


(***************************************************************************)
(* PlannerSpec: inputs.  A grid of small sides at several target           *)
(* resolutions, and the inputs that put max_dim and total_pixels on and    *)
(* just past each threshold.  target_resolution >= 64 (UpscaleRequest).    *)
(***************************************************************************)
GridTargets == {64, 65, 100, 1080, 2160, 4097}

BoundaryInputs ==
    { <<1, 1, 1024>>, <<1, 1, 1025>>, <<1, 1, 2048>>, <<1, 1, 2049>>,
      <<1, 1, 4096>>, <<1, 1, 4097>>,
      <<1, 1, 3000>>, <<3000, 3001, 3000>>,
      <<1, 1, 4000>>, <<4000, 4001, 4000>>,
      <<1, 1, 5000>>, <<5000, 5001, 5000>>,
      <<5, 8, 5000>>, <<8, 5, 5000>>, <<5000, 8001, 5000>>,
      <<1920, 1080, 1080>>, <<8000, 6000, 2160>>, <<6000, 8000, 2160>>,
      <<49, 49, 64>>, <<98, 49, 64>>, <<49, 98, 64>>, <<147, 98, 64>>,
      <<3, 2, 65>>, <<1000, 333, 64>> }

PlannerInputs ==
    ((1..MaxSide) \X (1..MaxSide) \X GridTargets) \cup BoundaryInputs

PlannerInit ==
    /\ planIn \in PlannerInputs
    /\ planOut = NoPlan
    /\ InvokerInit

Calculate ==
    /\ planOut = NoPlan
    /\ planOut' = PlanLocals(planIn[1], planIn[2], planIn[3])
    /\ UNCHANGED <<planIn, invVars>>

PlannerNext == Calculate

PlannerSpec == PlannerInit /\ [][PlannerNext]_vars

(***************************************************************************)
(* Planner claims (PlannerSpec).                                           *)
(***************************************************************************)
Planned == planOut # NoPlan

\* The value the truncated double product may take: the exact floor, or,
\* when the division is exact, that quotient or one less.
TruncatedValues(side, target_resolution, other) ==
    LET prod == side * target_resolution
    IN  IF prod % other # 0 THEN {prod \div other}
        ELSE {prod \div other - 1, prod \div other}

\* C4 as stated: the shorter source side maps exactly to target_resolution
\* and the other side is round(longer * target_resolution / shorter).
C4_RoundedDimensions ==
    Planned =>
        LET width == planIn[1]
            height == planIn[2]
            target_resolution == planIn[3]
        IN  IF height < width
            THEN /\ planOut.out_height = target_resolution
                 /\ planOut.out_width = RoundDiv(width * target_resolution, height)
            ELSE /\ planOut.out_width = target_resolution
                 /\ planOut.out_height = RoundDiv(height * target_resolution, width)

\* C4 amended: the shorter source side maps exactly to target_resolution and
\* the other side is the double product longer * (target_resolution / shorter)
\* truncated toward zero: floor(longer * target_resolution / shorter) when
\* the division is inexact, that quotient or one less when it is exact.
C4_TruncatedDimensions ==
    Planned =>
        LET width == planIn[1]
            height == planIn[2]
            target_resolution == planIn[3]
        IN  IF height < width
            THEN /\ planOut.out_height = target_resolution
                 /\ planOut.out_width \in TruncatedValues(width, target_resolution, height)
            ELSE /\ planOut.out_width = target_resolution
                 /\ planOut.out_height \in TruncatedValues(height, target_resolution, width)

\* C4 witness: 5x3 at 64 is planned as 106x64 (106.67 truncated, not 107).
C4_Witness ==
    /\ Planned
    /\ planIn = <<5, 3, 64>>
    /\ planOut.out_width = 106
    /\ planOut.out_height = 64

\* The claim's table of (tile_size, tile_overlap) by max_dim.
TileTable(max_dim) ==
    IF max_dim <= 2048 THEN <<512, 128>>
    ELSE IF max_dim <= 4096 THEN <<384, 96>>
    ELSE <<256, 64>>

TileProbes == {1, 1024, 1025, 2048, 2049, 4096, 4097, 100000}

\* C5: (tile_size, tile_overlap) is the step function of max_dim with
\* inclusive upper bounds 2048 and 4096, non-increasing, with
\* tile_overlap = max(64, tile_size div 4) >= 64.
C5_TileSteps ==
    /\ Planned =>
          /\ planOut.max_dim = Max(planOut.out_width, planOut.out_height)
          /\ <<planOut.tile_size, planOut.tile_overlap>> = TileTable(planOut.max_dim)
          /\ planOut.tile_overlap >= 64
          /\ planOut.tile_overlap = Max(64, planOut.tile_size \div 4)
    /\ TileSize(1024) = 512 /\ TileSize(2048) = 512
    /\ TileSize(2049) = 384 /\ TileSize(4096) = 384
    /\ TileSize(4097) = 256
    /\ \A a \in TileProbes : \A b \in TileProbes :
          a <= b => /\ TileSize(a) >= TileSize(b)
                    /\ TileOverlap(TileSize(a)) >= TileOverlap(TileSize(b))

\* C5 witness: max_dim exactly 2048 is planned with tiles of 512/128.
C5_Witness ==
    /\ Planned
    /\ planOut.max_dim = 2048
    /\ planOut.tile_size = 512
    /\ planOut.tile_overlap = 128

\* The claim's table of blocks_to_swap by total_pixels: 8 per threshold
\* strictly exceeded.
SwapThresholds == {9000000, 16000000, 25000000, 40000000}

SwapTable(total_pixels) ==
    8 * Cardinality({th \in SwapThresholds : total_pixels > th})

\* C6: blocks_to_swap is the step function of total_pixels with strict
\* lower bounds; a value exactly at a threshold takes the lower count.
C6_SwapSteps ==
    /\ Planned =>
          /\ planOut.total_pixels = planOut.out_width * planOut.out_height
          /\ planOut.blocks_to_swap = SwapTable(planOut.total_pixels)
    /\ BlocksToSwap(9000000) = 0  /\ BlocksToSwap(9000001) = 8
    /\ BlocksToSwap(40000000) = 24 /\ BlocksToSwap(40000001) = 32

\* C6 witness: 5x8 at 5000 gives exactly 40,000,000 pixels and swaps 24.
C6_Witness ==
    /\ Planned
    /\ planOut.total_pixels = 40000000
    /\ planOut.blocks_to_swap = 24

IsScenario == Planned /\ planIn = <<8000, 6000, 2160>>

\* C7 as stated: 8000x6000 at 2160 has max_dim > 4096 and tile_size 256.
C7_ScenarioAsStated ==
    IsScenario =>
        /\ planOut.max_dim > 4096
        /\ planOut.tile_size = 256
        /\ planOut.blocks_to_swap = SwapTable(planOut.total_pixels)

\* C7 amended: 8000x6000 at 2160 is planned as 2880x2160, max_dim 2880
\* (<= 4096), tile_size 384, tile_overlap 96, 6,220,800 pixels, no swap.
C7_Scenario ==
    IsScenario =>
        /\ planOut.out_width = 2880 /\ planOut.out_height = 2160
        /\ planOut.max_dim = 2880
        /\ planOut.tile_size = 384 /\ planOut.tile_overlap = 96
        /\ planOut.total_pixels = 6220800
        /\ planOut.blocks_to_swap = 0

\* C7 witness: the scenario has been planned.
C7_Witness == IsScenario /\ planOut.tile_size = 384

(***************************************************************************)
(* Invoker claims (Spec).                                                  *)
(***************************************************************************)
In(l, ev) == \E k \in 1..Len(l) : l[k] = ev

Count(l, ev) == Cardinality({k \in 1..Len(l) : l[k] = ev})

\* every ev2 in l has an ev1 before it
Before(l, ev1, ev2) ==
    \A k \in 1..Len(l) : l[k] = ev2 => \E m \in 1..(k - 1) : l[m] = ev1

\* inside upscale_with_cli, before it returns or raises
Live(i) == pc[i] \notin {"idle", "done"}

\* the workspace the invocation created is still there
OwnWorkspaceExists(i) == Ws(i).exists /\ Ws(i).owner = id[i]

\* What the external process did, read off the statements executed
FailureCauses == {"exit_nonzero", "timeout", "not_found"}

CauseOf(i) ==
    IF In(log[i], "exit_nonzero") THEN "exit_nonzero"
    ELSE IF In(log[i], "timeout") THEN "timeout"
    ELSE IF In(log[i], "not_found") THEN "not_found"
    ELSE "other"

\* C1 as stated: once an invocation has returned or raised, its workspace no
\* longer exists, and with no invocation under way the temp root is empty again.
C1_NoWorkspaceAfterReturn ==
    /\ \A i \in Inv : pc[i] = "done" => ~OwnWorkspaceExists(i)
    /\ (\A i \in Inv : pc[i] = "idle") => \A n \in Names : ~fs[n].exists

\* C1 amended: every invocation, whatever its outcome, attempts the recursive
\* delete of its workspace exactly once, as its last step; the workspace is gone
\* unless that delete itself failed (the failure is ignored and does not change
\* the result or the error), so the only directories under the temp root are
\* those of invocations under way and those whose delete failed.
C1_WorkspaceReleasedUnlessRmtreeFails ==
    /\ \A i \in Inv : pc[i] = "done" =>
          /\ Count(log[i], "rmtree") = 1
          /\ log[i][Len(log[i])] = "rmtree"
          /\ OwnWorkspaceExists(i) => Ws(i).rmtree_failed
          /\ (exc[i] = NoExc) = In(log[i], "read")
          /\ (ret[i] # NoRet) = In(log[i], "read")
    /\ \A n \in Names : fs[n].exists =>
          \/ fs[n].rmtree_failed
          \/ \E i \in Inv : Live(i) /\ tmpdir[i] = n

\* C1 witness: an invocation whose process exited non-zero has raised and its
\* workspace is gone.
C1_Witness ==
    \E i \in Inv :
        /\ pc[i] = "done"
        /\ In(log[i], "exit_nonzero")
        /\ exc[i].type = "RuntimeError"
        /\ ~OwnWorkspaceExists(i)

\* C2 as stated: the three failures have pairwise distinct types, and none of
\* them returns an image.
C2_FailuresDistinctByType ==
    /\ \A i \in Inv : \A j \in Inv :
          /\ pc[i] = "done" /\ pc[j] = "done"
          /\ CauseOf(i) \in FailureCauses /\ CauseOf(j) \in FailureCauses
          /\ CauseOf(i) # CauseOf(j)
          => exc[i].type # exc[j].type
    /\ \A i \in Inv :
          pc[i] = "done" /\ CauseOf(i) \in FailureCauses => ret[i] = NoRet

\* C2 amended: a non-zero exit raises RuntimeError "CLI failed: " followed by
\* stderr, or by stdout when stderr is empty; a timeout raises
\* subprocess.TimeoutExpired; a zero exit with no artifact raises RuntimeError
\* "No output file found. CLI output: " followed by stdout.  The first and the
\* third have the same type and differ in their message; in none of the three
\* is an image returned, and the endpoint answers 500 with the message as
\* detail and no image.
C2_FailuresByTypeAndMessage ==
    /\ \A i \in Inv : pc[i] = "done" =>
          /\ CauseOf(i) = "exit_nonzero" =>
                /\ exc[i].type = "RuntimeError"
                /\ exc[i].msg[1] = "CLI failed: "
                /\ exc[i].msg[2] = IF result[i].stderr # "" THEN result[i].stderr
                                                           ELSE result[i].stdout
          /\ CauseOf(i) = "timeout" =>
                /\ exc[i].type = "TimeoutExpired"
                /\ result[i] = NoResult
          /\ CauseOf(i) = "not_found" =>
                /\ exc[i].type = "RuntimeError"
                /\ exc[i].msg = <<"No output file found. CLI output: ", result[i].stdout>>
                /\ result[i].returncode = 0
          /\ CauseOf(i) \in FailureCauses =>
                /\ ret[i] = NoRet
                /\ ResponseOf(ret[i], exc[i]).status = 500
                /\ ResponseOf(ret[i], exc[i]).detail = exc[i].msg[1] \o exc[i].msg[2]
    /\ \A i \in Inv : \A j \in Inv :
          /\ pc[i] = "done" /\ pc[j] = "done"
          /\ CauseOf(i) \in FailureCauses /\ CauseOf(j) \in FailureCauses
          /\ CauseOf(i) # CauseOf(j)
          => <<exc[i].type, exc[i].msg[1]>> # <<exc[j].type, exc[j].msg[1]>>
    /\ \A i \in Inv : response[i].status = 500 =>
          /\ ~response[i].success
          /\ response[i].image_base64 = NoResponse.image_base64

\* C2 witness: a non-zero exit and a missing artifact, both raised as
\* RuntimeError, side by side.
C2_Witness ==
    \E i \in Inv : \E j \in Inv :
        /\ pc[i] = "done" /\ CauseOf(i) = "exit_nonzero"
        /\ pc[j] = "done" /\ CauseOf(j) = "not_found"
        /\ exc[i].type = exc[j].type

IsImageFile(f) == f[2] \in {"png", "jpg"}

\* The invocation's output directory as it stands
OutFiles(i) == IF Ws(i).exists /\ Ws(i).output.exists THEN Ws(i).output.files ELSE <<>>

\* C3 as stated: the expected file when it exists, else the first image file
\* of any type; the missing-artifact error only when the output directory
\* holds no image file at all; the bytes returned are those of the file chosen.
C3_AnyImageFallback ==
    \A i \in Inv :
        /\ pc[i] = "read" =>
              IF ExpectedFile \in DOMAIN OutFiles(i)
              THEN output_file[i] = ExpectedFile
              ELSE output_file[i] \in {f \in DOMAIN OutFiles(i) : IsImageFile(f)}
        /\ pc[i] = "finally" /\ In(log[i], "not_found") =>
              {f \in DOMAIN OutFiles(i) : IsImageFile(f)} = {}
        /\ pc[i] = "finally" /\ ret[i] # NoRet =>
              ret[i].output_bytes = OutFiles(i)[output_file[i]]

\* C3 amended: the expected file output/input.png when it exists; else a file
\* of the output directory matching *.png (the first of the glob); the
\* missing-artifact error exactly when, after a zero exit, the output
\* directory is gone or holds neither; the bytes returned are exactly those
\* of the file chosen and the size is the one decoded from them.
C3_PngFallback ==
    \A i \in Inv :
        /\ pc[i] = "read" =>
              IF ExpectedFile \in DOMAIN OutFiles(i)
              THEN output_file[i] = ExpectedFile
              ELSE output_file[i] \in {f \in DOMAIN OutFiles(i) : f[2] = "png"}
        /\ pc[i] = "finally" /\ In(log[i], "exit_zero") =>
              In(log[i], "not_found") =
                  ({f \in DOMAIN OutFiles(i) : f[2] = "png"} = {})
        /\ pc[i] = "finally" /\ ret[i] # NoRet =>
              /\ ret[i].output_bytes = OutFiles(i)[output_file[i]]
              /\ ret[i].output_bytes = ToolBytes(output_file[i])
              /\ <<ret[i].width, ret[i].height>> =
                     <<ret[i].output_bytes[2], ret[i].output_bytes[3]>>

\* C3 witness: the expected file is absent and a.png was taken and read.
C3_Witness ==
    \E i \in Inv :
        /\ pc[i] = "finally"
        /\ ExpectedFile \notin DOMAIN OutFiles(i)
        /\ output_file[i] = <<"a", "png">>
        /\ ret[i].output_bytes = ToolBytes(<<"a", "png">>)

\* C8: invocations under way have distinct workspaces; a workspace is
\* accessed by no request but the one that created it; the workspace of an
\* invocation under way exists, with its input and, once chosen, its output
\* artifact in place; the paths in its argument list are its own.
C8_ExclusiveWorkspaces ==
    /\ \A i \in Inv : \A j \in Inv :
          Live(i) /\ Live(j) /\ i # j => tmpdir[i] # tmpdir[j]
    /\ \A n \in Names : fs[n].exists => fs[n].touched \subseteq {fs[n].owner}
    /\ \A i \in Inv : Live(i) =>
          /\ Ws(i).exists
          /\ Ws(i).owner = id[i]
          /\ In(log[i], "save") => Ws(i).input = PngOf(request[i])
          /\ pc[i] = "read" => output_file[i] \in DOMAIN OutFiles(i)
          /\ cmd[i] # <<>> =>
                /\ cmd[i][3] = InputPath(tmpdir[i])
                /\ OutputTargets(cmd[i]) = {tmpdir[i]}

\* C8 witness: one invocation has removed its workspace while another, started
\* meanwhile, is still running with its input in place.
C8_Witness ==
    \E i \in Inv : \E j \in Inv :
        /\ pc[i] = "done" /\ ~OwnWorkspaceExists(i)
        /\ pc[j] = "running" /\ Ws(j).input = PngOf(request[j])
        /\ id[i] # id[j]

OffloadFlags == {"--blocks_to_swap", "--dit_offload_device", "--swap_io_components"}

TilingFlags == {"--vae_encode_tiled", "--vae_decode_tiled",
                "--vae_encode_tile_size", "--vae_decode_tile_size",
                "--vae_encode_tile_overlap", "--vae_decode_tile_overlap"}

\* C9: the three offload arguments are all present or all absent, present
\* exactly when blocks_to_swap > 0, with the count and cpu as values; the
\* tiling flags are always present, with one tile_size and one tile_overlap
\* for encode and decode.
C9_OffloadArgsTogether ==
    \A i \in Inv : cmd[i] # <<>> =>
        LET plan == calculate_tile_settings(request[i].width, request[i].height,
                                            request[i].resolution)
        IN  /\ \A f \in OffloadFlags : HasArg(cmd[i], f) = (plan[3] > 0)
            /\ plan[3] > 0 =>
                  /\ ArgValue(cmd[i], "--blocks_to_swap") = Str(plan[3])
                  /\ ArgValue(cmd[i], "--dit_offload_device") = "cpu"
            /\ \A f \in TilingFlags : HasArg(cmd[i], f)
            /\ ArgValue(cmd[i], "--vae_encode_tile_size") = Str(plan[1])
            /\ ArgValue(cmd[i], "--vae_decode_tile_size") = Str(plan[1])
            /\ ArgValue(cmd[i], "--vae_encode_tile_overlap") = Str(plan[2])
            /\ ArgValue(cmd[i], "--vae_decode_tile_overlap") = Str(plan[2])

\* C9 witness: an argument list with the three offload arguments (8 blocks).
C9_Witness ==
    \E i \in Inv :
        /\ ArgValue(cmd[i], "--blocks_to_swap") = "8"
        /\ ArgValue(cmd[i], "--dit_offload_device") = "cpu"
        /\ HasArg(cmd[i], "--swap_io_components")
        /\ ArgValue(cmd[i], "--vae_encode_tile_size") = "384"

\* C10: the process is started at most once, after the workspace, its output
\* directory and the input file; the artifact is looked for only after a zero
\* exit; the workspace is deleted last, never while the process runs, after
\* its exit or timeout if it was started, and after the read on success.
C10_StepOrder ==
    \A i \in Inv :
        LET l == log[i]
        IN  /\ Count(l, "start") <= 1
            /\ In(l, "start") =>
                  /\ SubSeq(l, 1, 4) = <<"mkdtemp", "mkdir", "save", "start">>
                  /\ OwnWorkspaceExists(i) => Ws(i).input = PngOf(request[i])
            /\ proc[i] = "running" =>
                  /\ Ws(i).exists
                  /\ Ws(i).input = PngOf(request[i])
                  /\ Ws(i).output.exists
            /\ Before(l, "exit_zero", "find")
            /\ Before(l, "start", "exit_zero")
            /\ Before(l, "find", "read")
            /\ In(l, "rmtree") =>
                  /\ l[Len(l)] = "rmtree"
                  /\ Count(l, "rmtree") = 1
                  /\ proc[i] # "running"
                  /\ In(l, "start") =>
                        \/ In(l, "exit_zero") \/ In(l, "exit_nonzero") \/ In(l, "timeout")
                  /\ ret[i] # NoRet => Before(l, "read", "rmtree")
            /\ ret[i] # NoRet => In(l, "read")

\* C10 witness: a successful invocation has run all its steps in order.
C10_Witness ==
    \E i \in Inv :
        /\ pc[i] = "done"
        /\ log[i] = <<"mkdtemp", "mkdir", "save", "start", "exit_zero",
                      "find", "read", "rmtree">>
        /\ ret[i] # NoRet

====
